---- MODULE Spec2Model ----
(***************************************************************************)
(* BoltzTraP2Interpolater (src/amset/interpolate/boltztrap2.py): an        *)
(* adapter that builds a BoltzTraP2 loader from a band structure, asks     *)
(* BoltzTraP2 for the equivalences and the fitted coefficients, and keeps  *)
(* (equivalences, lattvec, coeffs) in self._parameters.                    *)
(*                                                                         *)
(* The model follows one adapter object: its construction, and any number  *)
(* of initialize() calls, each executed statement by statement so that a   *)
(* call that raises part-way is a behaviour of the model.  The external    *)
(* routines (BandstructureLoader, sphere.get_equivalences, get_lattvec,    *)
(* fite.fitde3D) are opaque: each either returns some value of a small     *)
(* set or raises some error.  The arguments every external routine is      *)
(* called with are logged, per initialize() call.                          *)
(***************************************************************************)
EXTENDS Integers, Sequences, FiniteSets

\* ---------------------------------------------------------------- bounds

\* initialize() calls made on the adapter
MaxCalls == 2
\* k-points of the band structure: 1..MaxKpts
MaxKpts == 2
\* processing units of the host: 1..MaxCpu
MaxCpu == 2
\* explicit n_jobs arguments: -MaxJobs..MaxJobs
MaxJobs == 2
\* distinct values an external routine may return: 1..NumOutputs
NumOutputs == 2

\* ------------------------------------------------------- program constants

\* n_jobs=-1, the default of __init__, asks for multiprocessing.cpu_count()
AutoJobs == -1
\* nkpt=len(bz2_data.kpoints) * 5
NkptFactor == 5

\* ---------------------------------------------------------------- values

\* Python's None stored in self._parameters (the triple is a 3-tuple)
None == <<>>
\* a local of initialize() that has not been assigned yet
Unbound == 0
\* the value of an absent object (band_structure.structure, magmom, no error)
NoneStr == "None"

Outputs == 1..NumOutputs
Structures == {NoneStr, "structure"}
BandStructures == [nkpts : 1..MaxKpts, structure : Structures]
ElectronCounts == {8, 9}
NJobsArgs == (0 - MaxJobs)..MaxJobs
\* errors an external routine may raise
Errors == {"ValueError", "RuntimeError"}
\* BandstructureLoader on a band structure whose structure is None
MissingStructureError == "AttributeError"
\* a loader that has not been built
NoLoader == [id |-> 0, atoms |-> NoneStr, kpoints |-> 0, nelect |-> 0, lattvec |-> Unbound]

VARIABLES
    pc,                  \* "new" (not constructed), "idle", or the line of initialize() to run next
    cpu_count,           \* what multiprocessing.cpu_count() returns now
    _band_structure,     \* self._band_structure
    _num_electrons,      \* self._num_electrons
    _n_jobs,             \* self._n_jobs
    _parameters,         \* self._parameters
    bz2_data,            \* locals of the running (or last) initialize() call
    equivalences,
    lattvec,
    coeffs,
    n_jobs_arg,          \* history: the n_jobs argument of __init__
    cpu_at_construction, \* history: cpu_count when __init__ ran
    cpu_queries,         \* history: calls of multiprocessing.cpu_count()
    n_calls,             \* history: initialize() calls started
    params_at_entry,     \* history: self._parameters when the call started
    loader_calls,        \* history: BandstructureLoader(...) calls of this initialize()
    equiv_calls,         \* history: sphere.get_equivalences(...) calls of this initialize()
    fit_calls,           \* history: fite.fitde3D(...) calls of this initialize()
    trace,               \* history: the steps of this initialize(), in order
    result,              \* how the last initialize() ended: "none", "running", "returned", "raised"
    ext_error,           \* the error an external routine raised in this call
    raised               \* the error the caller of initialize() received

vars == <<pc, cpu_count, _band_structure, _num_electrons, _n_jobs, _parameters,
          bz2_data, equivalences, lattvec, coeffs, n_jobs_arg,
          cpu_at_construction, cpu_queries, n_calls, params_at_entry,
          loader_calls, equiv_calls, fit_calls, trace, result, ext_error, raised>>

self_fields == <<_band_structure, _num_electrons, _n_jobs, _parameters>>
locals == <<bz2_data, equivalences, lattvec, coeffs>>
construction_history == <<n_jobs_arg, cpu_at_construction, cpu_queries>>
call_logs == <<loader_calls, equiv_calls, fit_calls>>

Init ==
    /\ pc = "new"
    /\ cpu_count \in 1..MaxCpu
    /\ _band_structure = [nkpts |-> 1, structure |-> NoneStr]
    /\ _num_electrons = 0
    /\ _n_jobs = 0
    /\ _parameters = None
    /\ bz2_data = NoLoader
    /\ equivalences = Unbound
    /\ lattvec = Unbound
    /\ coeffs = Unbound
    /\ n_jobs_arg = 0
    /\ cpu_at_construction = 0
    /\ cpu_queries = 0
    /\ n_calls = 0
    /\ params_at_entry = None
    /\ loader_calls = <<>>
    /\ equiv_calls = <<>>
    /\ fit_calls = <<>>
    /\ trace = <<>>
    /\ result = "none"
    /\ ext_error = NoneStr
    /\ raised = NoneStr

\* -------------------------------------------------------------- __init__

\* a variant that replaces every non-positive n_jobs by the host's count
ResolveNJobs_validating(n_jobs, cpus) ==
    IF n_jobs = AutoJobs \/ n_jobs < 1 THEN cpus ELSE n_jobs

\* multiprocessing.cpu_count() if n_jobs == -1 else n_jobs
ResolveNJobs(n_jobs, cpus) ==
    IF n_jobs = AutoJobs THEN cpus ELSE n_jobs

\* whether resolving n_jobs calls multiprocessing.cpu_count()
QueriesCpu(n_jobs) == n_jobs = AutoJobs

\* super().__init__(band_structure, num_electrons, **kwargs): the base class
\* keeps the two arguments in self._band_structure and self._num_electrons
AbstractInterpolater_init(band_structure, num_electrons) ==
    /\ _band_structure' = band_structure
    /\ _num_electrons' = num_electrons

\* BoltzTraP2Interpolater(band_structure, num_electrons, n_jobs)
Construct ==
    /\ pc = "new"
    /\ \E bs \in BandStructures, ne \in ElectronCounts, nj \in NJobsArgs :
          /\ AbstractInterpolater_init(bs, ne)
          /\ _n_jobs' = ResolveNJobs(nj, cpu_count)
          /\ n_jobs_arg' = nj
          /\ cpu_queries' = cpu_queries + (IF QueriesCpu(nj) THEN 1 ELSE 0)
    /\ cpu_at_construction' = cpu_count
    /\ _parameters' = None
    /\ pc' = "idle"
    /\ UNCHANGED <<cpu_count, locals, n_calls, params_at_entry, call_logs,
                   trace, result, ext_error, raised>>

\* the host's processing-unit count is the environment's, and may change
HostCpuChange ==
    /\ \E c \in 1..MaxCpu : c # cpu_count /\ cpu_count' = c
    /\ UNCHANGED <<pc, self_fields, locals, construction_history, n_calls,
                   params_at_entry, call_logs, trace, result, ext_error, raised>>

\* ------------------------------------------------------------ initialize

Propagate_wrapped(e) ==
    /\ ext_error' = e
    /\ raised' = "InterpolationError"
    /\ result' = "raised"
    /\ pc' = "idle"

\* an exception raised at a statement of initialize() leaves the call:
\* there is no try/except, the caller receives the error as raised
Propagate(e) ==
    /\ ext_error' = e
    /\ raised' = e
    /\ result' = "raised"
    /\ pc' = "idle"

\* entering initialize(): a fresh frame, nothing assigned, nothing called yet
InitializeEntry ==
    /\ pc = "idle"
    /\ n_calls < MaxCalls
    /\ n_calls' = n_calls + 1
    /\ params_at_entry' = _parameters
    /\ bz2_data' = NoLoader
    /\ equivalences' = Unbound
    /\ lattvec' = Unbound
    /\ coeffs' = Unbound
    /\ loader_calls' = <<>>
    /\ equiv_calls' = <<>>
    /\ fit_calls' = <<>>
    /\ trace' = <<>>
    /\ result' = "running"
    /\ ext_error' = NoneStr
    /\ raised' = NoneStr
    /\ pc' = "L69"

InitializeCall_reset ==
    /\ InitializeEntry
    /\ _parameters' = None
    /\ UNCHANGED <<cpu_count, _band_structure, _num_electrons, _n_jobs,
                   construction_history>>

InitializeCall_requery ==
    /\ InitializeEntry
    /\ _n_jobs' = ResolveNJobs(n_jobs_arg, cpu_count)
    /\ cpu_queries' = cpu_queries + (IF QueriesCpu(n_jobs_arg) THEN 1 ELSE 0)
    /\ UNCHANGED <<cpu_count, _band_structure, _num_electrons, _parameters,
                   n_jobs_arg, cpu_at_construction>>

\* the caller calls initialize(): no field of self is touched on entry
InitializeCall ==
    /\ InitializeEntry
    /\ UNCHANGED <<cpu_count, self_fields, construction_history>>

\* what BandstructureLoader is called with
LoaderArgs ==
    [bs |-> _band_structure, structure |-> _band_structure.structure,
     nelect |-> _num_electrons]

\* bz2_data = BandstructureLoader(...) returns a new loader
LoaderOk ==
    /\ pc = "L69"
    /\ _band_structure.structure # NoneStr
    /\ \E l \in Outputs :
          bz2_data' = [id |-> n_calls, atoms |-> _band_structure.structure,
                       kpoints |-> _band_structure.nkpts,
                       nelect |-> _num_electrons, lattvec |-> l]
    /\ loader_calls' = Append(loader_calls, LoaderArgs)
    /\ trace' = Append(trace, "BandstructureLoader")
    /\ pc' = "L72"
    /\ UNCHANGED <<cpu_count, self_fields, equivalences, lattvec, coeffs,
                   construction_history, n_calls, params_at_entry, equiv_calls,
                   fit_calls, result, ext_error, raised>>

\* BandstructureLoader(...) raises
LoaderRaise ==
    /\ pc = "L69"
    /\ \E e \in Errors \cup {MissingStructureError} :
          /\ (_band_structure.structure = NoneStr) <=> (e = MissingStructureError)
          /\ Propagate(e)
    /\ loader_calls' = Append(loader_calls, LoaderArgs)
    /\ trace' = Append(trace, "BandstructureLoader")
    /\ UNCHANGED <<cpu_count, self_fields, locals, construction_history,
                   n_calls, params_at_entry, equiv_calls, fit_calls>>

EquivArgs_no_oversampling ==
    [atoms |-> bz2_data.atoms, nkpt |-> bz2_data.kpoints, magmom |-> NoneStr]

\* what sphere.get_equivalences is called with
EquivArgs ==
    [atoms |-> bz2_data.atoms, nkpt |-> bz2_data.kpoints * NkptFactor,
     magmom |-> NoneStr]

EquivOk_partial ==
    /\ pc = "L72"
    /\ \E q \in Outputs : equivalences' = q /\ _parameters' = <<q>>
    /\ equiv_calls' = Append(equiv_calls, EquivArgs)
    /\ trace' = Append(trace, "get_equivalences")
    /\ pc' = "L75"
    /\ UNCHANGED <<cpu_count, _band_structure, _num_electrons, _n_jobs,
                   bz2_data, lattvec, coeffs, construction_history, n_calls,
                   params_at_entry, loader_calls, fit_calls, result, ext_error,
                   raised>>

\* equivalences = sphere.get_equivalences(...) returns
EquivOk ==
    /\ pc = "L72"
    /\ \E q \in Outputs : equivalences' = q
    /\ equiv_calls' = Append(equiv_calls, EquivArgs)
    /\ trace' = Append(trace, "get_equivalences")
    /\ pc' = "L75"
    /\ UNCHANGED <<cpu_count, self_fields, bz2_data, lattvec, coeffs,
                   construction_history, n_calls, params_at_entry, loader_calls,
                   fit_calls, result, ext_error, raised>>

\* sphere.get_equivalences(...) raises
EquivRaise ==
    /\ pc = "L72"
    /\ \E e \in Errors : Propagate(e)
    /\ equiv_calls' = Append(equiv_calls, EquivArgs)
    /\ trace' = Append(trace, "get_equivalences")
    /\ UNCHANGED <<cpu_count, self_fields, locals, construction_history,
                   n_calls, params_at_entry, loader_calls, fit_calls>>

\* lattvec = bz2_data.get_lattvec()
Lattvec ==
    /\ pc = "L75"
    /\ lattvec' = bz2_data.lattvec
    /\ trace' = Append(trace, "get_lattvec")
    /\ pc' = "L76"
    /\ UNCHANGED <<cpu_count, self_fields, bz2_data, equivalences, coeffs,
                   construction_history, n_calls, params_at_entry, call_logs,
                   result, ext_error, raised>>

\* bz2_data.get_lattvec() raises
LattvecRaise ==
    /\ pc = "L75"
    /\ \E e \in Errors : Propagate(e)
    /\ trace' = Append(trace, "get_lattvec")
    /\ UNCHANGED <<cpu_count, self_fields, locals, construction_history,
                   n_calls, params_at_entry, call_logs>>

\* a variant that hands self._n_jobs to the fitting routine
FitArgs_with_n_jobs ==
    [data |-> bz2_data, equivalences |-> equivalences, nworkers |-> <<_n_jobs>>]

\* what fite.fitde3D is called with: the loader and the equivalences, and no
\* worker count (nworkers is the empty tuple when no such argument is passed)
FitArgs ==
    [data |-> bz2_data, equivalences |-> equivalences, nworkers |-> <<>>]

\* coeffs = fite.fitde3D(bz2_data, equivalences) returns
FitOk ==
    /\ pc = "L76"
    /\ \E c \in Outputs : coeffs' = c
    /\ fit_calls' = Append(fit_calls, FitArgs)
    /\ trace' = Append(trace, "fitde3D")
    /\ pc' = "L78"
    /\ UNCHANGED <<cpu_count, self_fields, bz2_data, equivalences, lattvec,
                   construction_history, n_calls, params_at_entry, loader_calls,
                   equiv_calls, result, ext_error, raised>>

FitRaise_clobber ==
    /\ pc = "L76"
    /\ \E e \in Errors : Propagate(e)
    /\ _parameters' = None
    /\ fit_calls' = Append(fit_calls, FitArgs)
    /\ trace' = Append(trace, "fitde3D")
    /\ UNCHANGED <<cpu_count, _band_structure, _num_electrons, _n_jobs, locals,
                   construction_history, n_calls, params_at_entry, loader_calls,
                   equiv_calls>>

\* fite.fitde3D(bz2_data, equivalences) raises
FitRaise ==
    /\ pc = "L76"
    /\ \E e \in Errors : Propagate(e)
    /\ fit_calls' = Append(fit_calls, FitArgs)
    /\ trace' = Append(trace, "fitde3D")
    /\ UNCHANGED <<cpu_count, self_fields, locals, construction_history,
                   n_calls, params_at_entry, loader_calls, equiv_calls>>

ParametersTuple_merged ==
    IF _parameters = None THEN <<equivalences, lattvec, coeffs>>
    ELSE <<equivalences, _parameters[2], coeffs>>

ParametersTuple_swapped == <<equivalences, coeffs, lattvec>>

\* the tuple built at line 78
ParametersTuple == <<equivalences, lattvec, coeffs>>

\* self._parameters = (equivalences, lattvec, coeffs), and initialize() returns
Store ==
    /\ pc = "L78"
    /\ _parameters' = ParametersTuple
    /\ trace' = Append(trace, "store")
    /\ result' = "returned"
    /\ pc' = "idle"
    /\ UNCHANGED <<cpu_count, _band_structure, _num_electrons, _n_jobs, locals,
                   construction_history, n_calls, params_at_entry, call_logs,
                   ext_error, raised>>

Next ==
    \/ Construct
    \/ HostCpuChange
    \/ InitializeCall
    \/ LoaderOk
    \/ LoaderRaise
    \/ EquivOk
    \/ EquivRaise
    \/ Lattvec
    \/ LattvecRaise
    \/ FitOk
    \/ FitRaise
    \/ Store

Spec == Init /\ [][Next]_vars

TypeOK ==
    /\ pc \in {"new", "idle", "L69", "L72", "L75", "L76", "L78"}
    /\ cpu_count \in 1..MaxCpu
    /\ _parameters \in {None} \cup (Outputs \X Outputs \X Outputs)
    /\ n_calls \in 0..MaxCalls
    /\ result \in {"none", "running", "returned", "raised"}

\* ---------------------------------------------------------------- claims

Constructed == pc # "new"
CallOver == pc = "idle" /\ n_calls > 0
PipelineOrder ==
    <<"BandstructureLoader", "get_equivalences", "get_lattvec", "fitde3D", "store">>

\* C1: once the adapter is constructed, in every state (between, during and
\* after initialize() calls, failing ones included) self._parameters is either
\* None or a 3-tuple whose three components are all values an external routine
\* returned; a tuple with fewer components or an unassigned one is never stored.
C1_ParametersUnsetOrComplete ==
    Constructed =>
        \/ _parameters = None
        \/ /\ Len(_parameters) = 3
           /\ \A i \in 1..3 : _parameters[i] \in Outputs

\* C1 witness: a first initialize() is part-way (equivalences and lattvec
\* assigned, coeffs not yet) and self._parameters is still None.
C1_Witness ==
    /\ pc = "L76"
    /\ equivalences # Unbound
    /\ coeffs = Unbound
    /\ _parameters = None

\* C2: construction leaves the adapter uninitialized; self._parameters goes
\* from None to set only in the step that ends an initialize() call
\* successfully; once set, no step sets it back to None.
C2_TwoStates ==
    [][ /\ (pc = "new" /\ pc' # "new") => _parameters' = None
        /\ (Constructed /\ _parameters = None /\ _parameters' # None)
              => (pc = "L78" /\ pc' = "idle" /\ result' = "returned")
        /\ (Constructed /\ _parameters # None) => _parameters' # None ]_vars

\* C2 witness: an initialized adapter whose later initialize() failed is
\* still initialized.
C2_Witness ==
    /\ result = "raised"
    /\ n_calls = 2
    /\ _parameters # None

\* C3: after construction self._n_jobs is the host's processing-unit count
\* at construction time when n_jobs was -1, and is the n_jobs argument itself
\* otherwise, whatever its value (zero and negative values included: nothing
\* is validated).
C3_WorkerCountResolved ==
    Constructed =>
        /\ (n_jobs_arg = AutoJobs) => (_n_jobs = cpu_at_construction)
        /\ (n_jobs_arg # AutoJobs) => (_n_jobs = n_jobs_arg)

\* C3 witness: an adapter built with n_jobs=-1 holds the count of the host
\* at construction, which the host no longer has.
C3_Witness ==
    /\ Constructed
    /\ n_jobs_arg = AutoJobs
    /\ _n_jobs = cpu_at_construction
    /\ cpu_count # cpu_at_construction

\* C4 as claimed: the fitting routine, whenever initialize() invokes it,
\* receives the worker count resolved at construction.
C4_FitReceivesWorkerCount ==
    \A i \in 1..Len(fit_calls) : fit_calls[i].nworkers = <<_n_jobs>>

\* C4 amended: the fitting routine, whenever initialize() invokes it, is
\* called with exactly the loader and the equivalences of that call and with
\* no worker count; self._n_jobs is stored but not handed to it.
C4_FitReceivesNoWorkerCount ==
    \A i \in 1..Len(fit_calls) :
        /\ fit_calls[i].nworkers = <<>>
        /\ fit_calls[i].data = bz2_data
        /\ fit_calls[i].equivalences = equivalences

\* C4 witness: initialize() has called the fitting routine on an adapter
\* with a positive worker count, and returned.
C4_Witness ==
    /\ result = "returned"
    /\ Len(fit_calls) = 1
    /\ _n_jobs > 0

\* C5 as claimed: every initialize() call, once over, has invoked the
\* equivalence generator exactly once, with nkpt = 5 * (number of k-points)
\* and magmom None.
C5_EveryCallGeneratesOnce ==
    CallOver =>
        /\ Len(equiv_calls) = 1
        /\ equiv_calls[1].nkpt = 5 * _band_structure.nkpts
        /\ equiv_calls[1].magmom = NoneStr

\* C5 amended: an initialize() call whose loader construction succeeded
\* invokes the equivalence generator exactly once, with nkpt = 5 * (number of
\* k-points of the band structure) and magmom None; a call whose loader
\* construction raised does not invoke it; no call invokes it twice.
C5_GeneratesOnceAfterLoader ==
    /\ Len(equiv_calls) <= 1
    /\ \A i \in 1..Len(equiv_calls) :
          /\ equiv_calls[i].nkpt = 5 * _band_structure.nkpts
          /\ equiv_calls[i].magmom = NoneStr
    /\ (CallOver /\ bz2_data # NoLoader) => Len(equiv_calls) = 1
    /\ (bz2_data = NoLoader) => equiv_calls = <<>>

\* C5 witness: initialize() returned on a band structure of 2 k-points and
\* the generator was asked for 10.
C5_Witness ==
    /\ result = "returned"
    /\ _band_structure.nkpts = 2
    /\ Len(equiv_calls) = 1
    /\ equiv_calls[1].nkpt = 10

\* C6: when an external routine raises during initialize(), the call ends
\* there with that very error reaching the caller; no external routine was
\* called a second time, and self._parameters is what it was on entry (no
\* empty or placeholder value stored).  No error reaches the caller that no
\* external routine raised.  On a band structure without a structure every
\* initialize() call ends with an error and self._parameters stays None.
C6_ErrorsPropagateUnmodified ==
    /\ ext_error # NoneStr =>
          /\ pc = "idle"
          /\ result = "raised"
          /\ raised = ext_error
          /\ Len(loader_calls) <= 1
          /\ Len(equiv_calls) <= 1
          /\ Len(fit_calls) <= 1
          /\ _parameters = params_at_entry
    /\ result = "raised" => (ext_error # NoneStr /\ raised = ext_error)
    /\ (CallOver /\ _band_structure.structure = NoneStr) =>
          (result = "raised" /\ _parameters = None)

\* C6 witness: initialize() on a band structure without a structure has
\* raised the loader's error.
C6_Witness ==
    /\ result = "raised"
    /\ _band_structure.structure = NoneStr
    /\ raised = MissingStructureError
    /\ Len(loader_calls) = 1

\* C7: an initialize() call on an already initialized adapter starts the
\* pipeline again (a new loader is built); if it raises, the error is one an
\* external routine raised; if it returns, each external routine was called
\* once in it and self._parameters is the 3-tuple of this call's outputs
\* (its equivalences, its loader's lattice vectors, its coefficients).
C7_SecondCallReplaces ==
    (Constructed /\ params_at_entry # None) =>
        /\ (result = "raised") =>
              (ext_error # NoneStr /\ raised = ext_error /\ Len(loader_calls) = 1)
        /\ (result = "returned") =>
              /\ Len(loader_calls) = 1
              /\ Len(equiv_calls) = 1
              /\ Len(fit_calls) = 1
              /\ bz2_data.id = n_calls
              /\ Len(_parameters) = 3
              /\ _parameters = <<equivalences, bz2_data.lattvec, coeffs>>

\* C7 witness: a second initialize() returned, and every component of the
\* stored triple differs from the first call's.
C7_Witness ==
    /\ result = "returned"
    /\ params_at_entry # None
    /\ \A i \in 1..3 : _parameters[i] # params_at_entry[i]

\* C8: once the adapter is constructed, no step changes
\* self._band_structure, self._num_electrons or self._n_jobs, and
\* multiprocessing.cpu_count() is not called again.
C8_ConstructionDataFixed ==
    [][ Constructed =>
          /\ _band_structure' = _band_structure
          /\ _num_electrons' = _num_electrons
          /\ _n_jobs' = _n_jobs
          /\ cpu_queries' = cpu_queries ]_vars

\* C8 witness: two initialize() calls were made on an adapter built with
\* n_jobs=-1 after the host's count changed; the count was queried once and
\* self._n_jobs is still the count at construction.
C8_Witness ==
    /\ n_calls = 2
    /\ result = "returned"
    /\ n_jobs_arg = AutoJobs
    /\ cpu_queries = 1
    /\ cpu_count # cpu_at_construction
    /\ _n_jobs = cpu_at_construction

\* C9: the steps of an initialize() call are always a prefix of: loader
\* construction, equivalence generation, lattice vectors, fitting, store;
\* a call that returned ran them all, called the fitting routine with the
\* loader built and the equivalences generated in that call, and stored, in
\* this order, those equivalences, that loader's lattice vectors and the
\* coefficients the fitting routine returned.
C9_PipelineInOrder ==
    /\ Len(trace) <= Len(PipelineOrder)
    /\ \A i \in 1..Len(trace) : trace[i] = PipelineOrder[i]
    /\ (result = "returned") =>
          /\ trace = PipelineOrder
          /\ Len(fit_calls) = 1
          /\ fit_calls[1].data.id = n_calls
          /\ fit_calls[1].data = bz2_data
          /\ fit_calls[1].equivalences = equivalences
          /\ _parameters[1] = equivalences
          /\ _parameters[2] = bz2_data.lattvec
          /\ _parameters[3] = coeffs

\* C9 witness: initialize() returned with lattice vectors that differ from
\* both the equivalences and the coefficients.
C9_Witness ==
    /\ result = "returned"
    /\ lattvec # coeffs
    /\ lattvec # equivalences

\* C10: while an initialize() call runs, and after it raised, self._parameters
\* is what it was when the call started: None on an uninitialized adapter, the
\* triple of the last successful call on an initialized one.
C10_FailureKeepsParameters ==
    (result = "running" \/ result = "raised") => _parameters = params_at_entry

\* C10 witness: a second initialize() raised in the fitting routine and the
\* first call's triple is still stored.
C10_Witness ==
    /\ result = "raised"
    /\ Len(fit_calls) = 1
    /\ params_at_entry # None
    /\ _parameters = params_at_entry
====
